---- MODULE Spec2Model ----
(***************************************************************************)
(* Style lists, style chains and folding of typst's style resolution core  *)
(* (crates/typst-library/src/foundations/styles.rs).                       *)
(*                                                                         *)
(*   SpecFold    the folding combinators applied to sample values          *)
(*   SpecStyles  one style list under push / unset                         *)
(*   SpecLookup  style chains built link by link, and the lookups on them  *)
(*   Spec        style chains as values in memory: chain, equality, trunk, *)
(*               suffix                                                    *)
(*   SpecRules   the native show rule table: register, get, apply          *)
(*   SpecRecipe  one recipe applied to matched content                     *)
(*   SpecBlock   type-erased property values: write, clone, read back      *)
(*   SpecBranches  sibling chains nested on one parent chain               *)
(*   SpecApply   Styles::apply against a chain of the same lists           *)
(*   SpecSpanned Styles::spanned on a list of properties                   *)
(*   SpecWalk    a walk that chains on entering and pops on leaving        *)
(***************************************************************************)
EXTENDS Integers, Sequences, FiniteSets, TLC

VARIABLES
    fin,      \* SpecFold: the combinator under test and its three arguments
    fout,     \* SpecFold: the two groupings' results
    sty,      \* SpecStyles: the style list (Styles.0)
    undo,     \* SpecStyles: the list as it was before each push not yet unset
    sop,      \* SpecStyles: the last operation on the list
    lists,    \* the Styles objects, by address
    mem,      \* the StyleChain values, by address
    res,      \* the last operation on chains and what it returned
    universe, \* SpecLookup: which entries the run pushes
    rules     \* SpecRules: the entries of NativeRuleMap.rules

foldVars  == <<fin, fout>>
styleVars == <<sty, undo, sop>>
heapVars  == <<lists, mem, res, universe>>
vars      == <<fin, fout, sty, undo, sop, lists, mem, res, universe, rules>>

(***************************************************************************)
(* Bounds                                                                  *)
(***************************************************************************)
MaxVecLen == 1      \* longest sample sequence handed to a fold
MaxDepth == 2       \* largest sample Depth handed to a fold

Atoms == {"a", "b"}

RECURSIVE SeqsUpTo(_, _)
SeqsUpTo(S, n) ==
    IF n = 0 THEN {<<>>}
    ELSE LET shorter == SeqsUpTo(S, n - 1)
         IN  shorter \cup {Append(s, x) : s \in shorter, x \in S}

(***************************************************************************)
(* Option<T>: None is the empty tuple, Some(v) the one-element tuple.      *)
(***************************************************************************)
None == <<>>
Some(v) == <<v>>
IsSome(o) == o # None
Unwrap(o) == o[1]

(***************************************************************************)
(* Fold and AlternativeFold                                                *)
(***************************************************************************)
\* impl Fold for bool
BoolFold(self, outer) == self

\* A slip of Vec's fold: the inner elements are put first.
VecFoldInnerFirst(self, outer) == self \o outer

\* impl Fold for Vec<T>: outer.extend(self); outer
VecFold(self, outer) == outer \o self

\* impl Fold for SmallVec<[T; N]>
SmallVecFold(self, outer) == outer \o self

\* impl Fold for OneOrMultiple<T>
OneOrMultipleFold(self, outer) == outer \o self

\* impl Fold for Depth: Self(outer.0 + self.0)
DepthFold(self, outer) == outer + self

\* The types with a Fold implementation, as paths: <<"Option", "Vec">> is
\* Option<Vec<T>>.
BaseTypes == {"bool", "Vec", "SmallVec", "OneOrMultiple", "Depth"}
FoldTypes == {<<t>> : t \in BaseTypes} \cup {<<"Option", t>> : t \in BaseTypes}
IsOption(ty) == Head(ty) = "Option"

RECURSIVE Fold(_, _, _)
\* impl<T: Fold> Fold for Option<T>
OptionFold(T, self, outer) ==
    IF IsSome(self) /\ IsSome(outer)
    THEN Some(Fold(T, Unwrap(self), Unwrap(outer)))
    ELSE self

\* T::fold, dispatched on the type
Fold(ty, self, outer) ==
    IF Head(ty) = "bool" THEN BoolFold(self, outer)
    ELSE IF Head(ty) = "Vec" THEN VecFold(self, outer)
    ELSE IF Head(ty) = "SmallVec" THEN SmallVecFold(self, outer)
    ELSE IF Head(ty) = "OneOrMultiple" THEN OneOrMultipleFold(self, outer)
    ELSE IF Head(ty) = "Depth" THEN DepthFold(self, outer)
    ELSE OptionFold(Tail(ty), self, outer)

\* Option::or
OptionOr(self, other) == IF IsSome(self) THEN self ELSE other

\* impl<T: Fold> AlternativeFold for Option<T>
FoldOr(T, self, outer) ==
    IF IsSome(self) /\ IsSome(outer)
    THEN Some(Fold(T, Unwrap(self), Unwrap(outer)))
    ELSE OptionOr(self, outer)

\* The combinators: every Fold implementation, and fold_or on every Option<T>.
Combinators ==
    {[op |-> "fold", ty |-> ty] : ty \in FoldTypes}
        \cup {[op |-> "fold_or", ty |-> <<"Option", t>>] : t \in BaseTypes}

Combine(comb, self, outer) ==
    IF comb.op = "fold" THEN Fold(comb.ty, self, outer)
    ELSE FoldOr(Tail(comb.ty), self, outer)

\* Sample values of a type.
RECURSIVE Samples(_)
Samples(ty) ==
    IF Head(ty) = "bool" THEN BOOLEAN
    ELSE IF Head(ty) \in {"Vec", "SmallVec", "OneOrMultiple"} THEN SeqsUpTo(Atoms, MaxVecLen)
    ELSE IF Head(ty) = "Depth" THEN 0..MaxDepth
    ELSE {None} \cup {Some(v) : v \in Samples(Tail(ty))}

(***************************************************************************)
(* SpecFold: a combinator and a triple a, b, c are drawn; FoldLeft         *)
(* computes fold(fold(a, b), c) and FoldRight computes                     *)
(* fold(a, fold(b, c)).                                                    *)
(***************************************************************************)
Pending == [done |-> FALSE]
Done(v) == [done |-> TRUE, v |-> v]

StylesIdle == sty = <<>> /\ undo = <<>> /\ sop = [op |-> "init"]
HeapIdle == lists = <<>> /\ mem = <<>> /\ res = [op |-> "init"] /\ universe = "none"
RulesIdle == rules = {}

InitFold ==
    /\ \E comb \in Combinators :
         \E a \in Samples(comb.ty), b \in Samples(comb.ty), c \in Samples(comb.ty) :
            fin = [comb |-> comb, a |-> a, b |-> b, c |-> c]
    /\ fout = [l |-> Pending, r |-> Pending]
    /\ StylesIdle
    /\ RulesIdle
    /\ HeapIdle

FoldLeft ==
    /\ ~fout.l.done
    /\ fout' = [fout EXCEPT !.l =
                   Done(Combine(fin.comb, Combine(fin.comb, fin.a, fin.b), fin.c))]
    /\ UNCHANGED <<fin, styleVars, heapVars, rules>>

FoldRight ==
    /\ ~fout.r.done
    /\ fout' = [fout EXCEPT !.r =
                   Done(Combine(fin.comb, fin.a, Combine(fin.comb, fin.b, fin.c)))]
    /\ UNCHANGED <<fin, styleVars, heapVars, rules>>

NextFold == FoldLeft \/ FoldRight

SpecFold == InitFold /\ [][NextFold]_vars

BothDone == fout.l.done /\ fout.r.done

\* C1: every built-in folding combinator is associative: once both groupings
\* of a triple are computed, fold(fold(a, b), c) equals fold(a, fold(b, c)).
FoldAssociative == BothDone => fout.l.v = fout.r.v

\* The combinators other than Option<T>::fold over a T that merges are
\* associative.
MergingTypes == {"Vec", "SmallVec", "OneOrMultiple", "Depth"}
FoldAssociativeElsewhere ==
    (BothDone /\ ~(fin.comb.op = "fold" /\ IsOption(fin.comb.ty) /\ fin.comb.ty[2] \in MergingTypes))
        => fout.l.v = fout.r.v


(***************************************************************************)
(* Style entries                                                           *)
(***************************************************************************)
MaxStyles == 3      \* longest style list SpecStyles builds

Detached == 0       \* Span::detached()

\* Block::new: the value with the type it was written with
Block(ty, v) == [ty |-> ty, v |-> v]

\* Property::new
Property(elem, id, ty, v) ==
    [kind |-> "Property", elem |-> elem, id |-> id, value |-> Block(ty, v),
     span |-> Detached, liftable |-> FALSE, outside |-> FALSE]

\* Recipe::new
Recipe(selector, transform, span) ==
    [kind |-> "Recipe", selector |-> selector, transform |-> transform,
     span |-> span, outside |-> FALSE]

\* Style::Revocation(RecipeIndex(index))
Revocation(index) == [kind |-> "Revocation", index |-> index]

\* Style::property
StyleProperty(style) == IF style.kind = "Property" THEN Some(style) ELSE None

\* Style::recipe
StyleRecipe(style) == IF style.kind = "Recipe" THEN Some(style) ELSE None

\* Property::is
PropertyIs(property, elem, id) == property.elem = elem /\ property.id = id

(***************************************************************************)
(* The fields the model queries.  fold is the type's fold when the field   *)
(* folds (E::FOLD), default is E::default().                               *)
(***************************************************************************)
FontField  == [elem |-> "text", id |-> 0, ty |-> <<"FontList">>, fold |-> FALSE, default |-> <<"d">>]
DashField  == [elem |-> "text", id |-> 1, ty |-> <<"Vec">>, fold |-> TRUE, default |-> <<>>]
FeatField  == [elem |-> "text", id |-> 2, ty |-> <<"Vec">>, fold |-> TRUE, default |-> <<"d">>]
LangField  == [elem |-> "par", id |-> 0, ty |-> <<"FontList">>, fold |-> FALSE, default |-> <<"d">>]
Fields == {FontField, DashField, FeatField, LangField}

\* Styles::set / Property::new for a field
Set(field, v) == Property(field.elem, field.id, field.ty, v)

ShowA == Recipe(Some("heading"), [kind |-> "Func", func |-> "f"], 1)
ShowB == Recipe(None, [kind |-> "Func", func |-> "g"], 2)

Front(s) == SubSeq(s, 1, Len(s) - 1)
Last(s) == s[Len(s)]

RECURSIVE Reverse(_)
Reverse(s) == IF s = <<>> THEN <<>> ELSE Append(Reverse(Tail(s)), Head(s))

(***************************************************************************)
(* Style lists                                                             *)
(***************************************************************************)
\* Styles::push: self.0.push(LazyHash::new(style.into()))
StylesPush(list, style) == Append(list, style)

\* A slip of unset: the oldest entry goes instead of the newest.
StylesUnsetOldest(list) == IF list = <<>> THEN <<>> ELSE Tail(list)

\* Styles::unset: self.0.pop(), which leaves an empty vector as it is
StylesUnset(list) == IF list = <<>> THEN <<>> ELSE Front(list)


(***************************************************************************)
(* Style chains.  A slice &[LazyHash<Style>] is the address of its first   *)
(* entry (the list and the offset in it) and its length, which is what     *)
(* ptr::eq compares; a chain is its head slice and the address of its      *)
(* parent chain, if any.  The operators below read the Styles objects ls   *)
(* and the chain memory m.                                                 *)
(***************************************************************************)
Slice(l, off, len) == [list |-> l, off |-> off, len |-> len]

\* <&[T]>::default(), the head of StyleChain::default()
EmptySlice == Slice(0, 0, 0)

\* Styles::as_slice
AsSlice(ls, l) == Slice(l, 0, Len(ls[l]))

\* std::slice::from_ref(&ls[l][i])
SliceFromRef(l, i) == Slice(l, i - 1, 1)

\* The entries a slice points at.
SliceEntries(ls, s) ==
    IF s.len = 0 THEN <<>> ELSE SubSeq(ls[s.list], s.off + 1, s.off + s.len)

StyleChain(head, tail) == [head |-> head, tail |-> tail]

\* StyleChain::default()
DefaultChain == StyleChain(EmptySlice, None)

\* StyleChain::new(root)
ChainNew(ls, root) == StyleChain(AsSlice(ls, root), None)

\* self.tail.copied()
TailCopied(m, c) == IF c.tail = None THEN None ELSE Some(m[Unwrap(c.tail)])

\* Links::next on the iterator state it (an Option<StyleChain>)
LinksNext(m, it) ==
    IF it = None THEN [item |-> None, it |-> None]
    ELSE [item |-> Some(Unwrap(it).head), it |-> TailCopied(m, Unwrap(it))]

\* StyleChain::links, collected: the head slices, nearest first
RECURSIVE LinksFrom(_, _)
LinksFrom(m, it) ==
    LET n == LinksNext(m, it)
    IN  IF n.item = None THEN <<>> ELSE <<Unwrap(n.item)>> \o LinksFrom(m, n.it)

Links(m, c) == LinksFrom(m, Some(c))

\* self.links().count()
LinksCount(m, c) == Len(Links(m, c))

\* A slip of Entries::next: inner.next() where the code has next_back().
RECURSIVE EntriesNextFront(_, _, _)
EntriesNextFront(ls, m, it) ==
    IF it.inner # <<>>
    THEN [item |-> Some(Head(it.inner)), it |-> [it EXCEPT !.inner = Tail(it.inner)]]
    ELSE LET n == LinksNext(m, it.links)
         IN  IF n.item = None THEN [item |-> None, it |-> it]
             ELSE EntriesNextFront(ls, m, [inner |-> SliceEntries(ls, Unwrap(n.item)), links |-> n.it])

\* Entries::next on the iterator state it = [inner, links]: the last entry
\* the inner slice iterator still holds, else on to the next link
RECURSIVE EntriesNext(_, _, _)
EntriesNext(ls, m, it) ==
    IF it.inner # <<>>
    THEN [item |-> Some(Last(it.inner)), it |-> [it EXCEPT !.inner = Front(it.inner)]]
    ELSE LET n == LinksNext(m, it.links)
         IN  IF n.item = None THEN [item |-> None, it |-> it]
             ELSE EntriesNext(ls, m, [inner |-> SliceEntries(ls, Unwrap(n.item)), links |-> n.it])

RECURSIVE EntriesFrom(_, _, _)
EntriesFrom(ls, m, it) ==
    LET n == EntriesNext(ls, m, it)
    IN  IF n.item = None THEN <<>> ELSE <<Unwrap(n.item)>> \o EntriesFrom(ls, m, n.it)

\* StyleChain::entries, collected
Entries(ls, m, c) == EntriesFrom(ls, m, [inner |-> <<>>, links |-> Some(c)])

\* iter.filter_map(f) for f one of Style::property, Style::recipe
RECURSIVE FilterKind(_, _)
FilterKind(seq, kind) ==
    IF seq = <<>> THEN <<>>
    ELSE IF Head(seq).kind = kind THEN <<Head(seq)>> \o FilterKind(Tail(seq), kind)
    ELSE FilterKind(Tail(seq), kind)

\* A slip of Property::is: the element is not compared.
PropertiesAnyElem(ls, m, c, func, id) ==
    LET props == FilterKind(Entries(ls, m, c), "Property")
        RECURSIVE Pick(_)
        Pick(seq) ==
            IF seq = <<>> THEN <<>>
            ELSE IF Head(seq).id = id THEN <<Head(seq).value>> \o Pick(Tail(seq))
            ELSE Pick(Tail(seq))
    IN  Pick(props)

\* StyleChain::properties, collected: the value blocks of the properties of
\* (func, id), in the order of entries()
Properties(ls, m, c, func, id) ==
    LET props == FilterKind(Entries(ls, m, c), "Property")
        RECURSIVE Pick(_)
        Pick(seq) ==
            IF seq = <<>> THEN <<>>
            ELSE IF PropertyIs(Head(seq), func, id) THEN <<Head(seq).value>> \o Pick(Tail(seq))
            ELSE Pick(Tail(seq))
    IN  Pick(props)

\* StyleChain::find: self.properties(func, id).next()
Find(ls, m, c, func, id) ==
    LET blocks == Properties(ls, m, c, func, id)
    IN  IF blocks = <<>> THEN None ELSE Some(Head(blocks))

\* A slip of recipes: the outermost recipe comes first.
RecipesOutermostFirst(ls, m, c) == Reverse(FilterKind(Entries(ls, m, c), "Recipe"))

\* StyleChain::recipes, collected
Recipes(ls, m, c) == FilterKind(Entries(ls, m, c), "Recipe")

\* A call that returns v, and one that panics.
Ok(v) == [panic |-> FALSE, v |-> v]
Panic == [panic |-> TRUE]

\* A slip of downcast: the stored value is handed out as a T whatever it is.
DowncastUnchecked(block, T) == Ok(block.v)

\* Block::downcast::<T>: block_wrong_type panics when T is not the stored type
Downcast(block, T) == IF block.ty = T THEN Ok(block.v) ELSE Panic

\* StyleChain::get_unfolded::<T>
GetUnfolded(ls, m, c, T, func, id) ==
    LET found == Find(ls, m, c, func, id)
    IN  IF found = None THEN Ok(None)
        ELSE LET d == Downcast(Unwrap(found), T)
             IN  IF d.panic THEN Panic ELSE Ok(Some(d.v))

\* Iterator::reduce(fold) from the accumulator acc over rest; folds counts the
\* calls of fold.
RECURSIVE ReduceFrom(_, _, _, _)
ReduceFrom(T, acc, rest, folds) ==
    IF rest = <<>> THEN [v |-> acc, folds |-> folds]
    ELSE ReduceFrom(T, Fold(T, acc, Head(rest)), Tail(rest), folds + 1)

\* A slip of get_folded: the reduced value is returned without folding the
\* default in.
GetFoldedNoDefault(ls, m, c, T, func, id, default) ==
    LET blocks == Properties(ls, m, c, func, id)
    IN  IF \E i \in 1..Len(blocks) : Downcast(blocks[i], T).panic THEN Panic
        ELSE IF blocks = <<>> THEN [panic |-> FALSE, v |-> default, folds |-> 0, found |-> FALSE]
        ELSE LET vals == [i \in 1..Len(blocks) |-> Downcast(blocks[i], T).v]
                 folded == ReduceFrom(T, Head(vals), Tail(vals), 0)
             IN  [panic |-> FALSE, v |-> folded.v, folds |-> folded.folds, found |-> TRUE]

\* StyleChain::get_folded::<T> with fold = T::fold: every matching block is
\* downcast and cloned, the values are reduced nearest first, and the result
\* is folded with the default
GetFolded(ls, m, c, T, func, id, default) ==
    LET blocks == Properties(ls, m, c, func, id)
    IN  IF \E i \in 1..Len(blocks) : Downcast(blocks[i], T).panic THEN Panic
        ELSE IF blocks = <<>> THEN [panic |-> FALSE, v |-> default, folds |-> 0, found |-> FALSE]
        ELSE LET vals == [i \in 1..Len(blocks) |-> Downcast(blocks[i], T).v]
                 folded == ReduceFrom(T, Head(vals), Tail(vals), 0)
             IN  [panic |-> FALSE, v |-> Fold(T, folded.v, default),
                  folds |-> folded.folds + 1, found |-> TRUE]

\* StyleChain::get_cloned; found tells whether an entry supplied the value
\* (unwrap_or_else was handed Some, reduce returned Some), folds counts the
\* calls of fold
GetCloned(ls, m, c, field) ==
    IF field.fold
    THEN GetFolded(ls, m, c, field.ty, field.elem, field.id, field.default)
    ELSE LET got == GetUnfolded(ls, m, c, field.ty, field.elem, field.id)
         IN  IF got.panic THEN Panic
             ELSE IF got.v = None
             THEN [panic |-> FALSE, v |-> field.default, folds |-> 0, found |-> FALSE]
             ELSE [panic |-> FALSE, v |-> Unwrap(got.v), folds |-> 0, found |-> TRUE]

\* StyleChain::get_ref: get_unfolded(..).unwrap_or_else(E::default_ref)
GetRef(ls, m, c, field) ==
    LET got == GetUnfolded(ls, m, c, field.ty, field.elem, field.id)
    IN  IF got.panic THEN Panic
        ELSE IF got.v = None THEN Ok(field.default) ELSE Ok(Unwrap(got.v))


(***************************************************************************)
(* SpecStyles: one style list, pushed to and unset.  undo holds, for every *)
(* push that no unset has answered yet, the list as it was before it.      *)
(***************************************************************************)
StyleSamples ==
    {Set(FontField, <<"a">>), Set(FontField, <<"b">>), ShowA, Revocation(0)}

FoldIdle == fin = [comb |-> [op |-> "none"]] /\ fout = [l |-> Pending, r |-> Pending]

InitStyles ==
    /\ sty \in SeqsUpTo(StyleSamples, 1)
    /\ undo = <<>>
    /\ sop = [op |-> "init"]
    /\ FoldIdle
    /\ HeapIdle
    /\ RulesIdle

Push(style) ==
    /\ Len(sty) < MaxStyles
    /\ sty' = StylesPush(sty, style)
    /\ undo' = Append(undo, sty)
    /\ sop' = [op |-> "push", style |-> style]
    /\ UNCHANGED <<foldVars, heapVars, rules>>

Unset ==
    /\ sty' = StylesUnset(sty)
    /\ undo' = IF undo = <<>> THEN <<>> ELSE Front(undo)
    /\ sop' = [op |-> "unset", was |-> sty, matched |-> undo # <<>>,
               before |-> IF undo = <<>> THEN <<>> ELSE Last(undo)]
    /\ UNCHANGED <<foldVars, heapVars, rules>>

NextStyles ==
    \/ \E style \in StyleSamples : Push(style)
    \/ Unset

SpecStyles == InitStyles /\ [][NextStyles]_vars

\* The value of a field on a chain over the one list.
LookupOn(list, field) == GetCloned(<<list>>, <<>>, ChainNew(<<list>>, 1), field)

\* C9: unset removes exactly the most recently pushed entry: the entries
\* before it stay in their order; an unset that answers a push leaves the list
\* (and every lookup on it) as it was before that push, so k unsets after k
\* pushes restore the list; unset on an empty list leaves it empty.
UnsetUndoesPush ==
    sop.op = "unset" =>
        /\ sop.was = <<>> => sty = <<>>
        /\ sop.was # <<>> =>
              /\ Len(sty) = Len(sop.was) - 1
              /\ \A i \in 1..Len(sty) : sty[i] = sop.was[i]
        /\ sop.matched =>
              /\ sty = sop.before
              /\ \A field \in Fields : LookupOn(sty, field) = LookupOn(sop.before, field)

\* C9 witness: an unset has answered a push onto a list that had entries,
\* while an earlier push is still unanswered.
UnsetWitnessNested ==
    /\ sop.op = "unset" /\ sop.matched /\ sty # <<>> /\ undo # <<>>
    /\ Len(sop.was) = Len(sty) + 1


(***************************************************************************)
(* Attaching to a chain                                                    *)
(***************************************************************************)
\* A slip of chain: an empty slice becomes a link too.
ChainSliceAlways(m, slice, outer) == StyleChain(slice, Some(outer))

\* impl Chainable for [LazyHash<Style>]: the chain at address outer, if the
\* slice is empty, else a new link in front of it
ChainSlice(m, slice, outer) ==
    IF slice.len = 0 THEN m[outer] ELSE StyleChain(slice, Some(outer))

\* impl Chainable for Styles
ChainStyles(ls, m, l, outer) == ChainSlice(m, AsSlice(ls, l), outer)

\* impl Chainable for LazyHash<Style>
ChainStyle(l, i, outer) == StyleChain(SliceFromRef(l, i), Some(outer))

\* A Styles object is borrowed while a chain's head points into it.
Borrowed(m, l) == \E a \in DOMAIN m : m[a].head.list = l

RECURSIVE TotalEntries(_)
TotalEntries(ls) == IF ls = <<>> THEN 0 ELSE Len(Head(ls)) + TotalEntries(Tail(ls))

(***************************************************************************)
(* SpecLookup: a walk that fills a style list, nests it on the innermost   *)
(* chain, and reads fields and recipes from the chains it holds.           *)
(***************************************************************************)
MaxEntries == 3     \* entries pushed in one run
MaxLinks == 3       \* chains (and lists) alive in one run

Universes == {"unfolded", "folded", "recipes"}

Pushable(u) ==
    IF u = "unfolded"
    THEN {Set(FontField, <<"a">>), Set(FontField, <<"b">>), Set(DashField, <<"a">>),
          Set(LangField, <<"a">>), ShowA, Revocation(0)}
    ELSE IF u = "folded"
    THEN {Set(DashField, <<"a">>), Set(DashField, <<"b">>), Set(FeatField, <<"a">>),
          Set(FeatField, <<"b">>), Set(FontField, <<"a">>)}
    ELSE {ShowA, ShowB, Revocation(0), Revocation(1), Set(FontField, <<"a">>)}

InitLookup ==
    /\ lists = <<<<>>>>
    /\ mem = <<>>
    /\ res = [op |-> "init"]
    /\ universe \in Universes
    /\ FoldIdle
    /\ StylesIdle
    /\ RulesIdle

\* Styles::push on the list under construction
LookupPush(style) ==
    LET l == Len(lists)
    IN  /\ ~Borrowed(mem, l)
        /\ TotalEntries(lists) < MaxEntries
        /\ lists' = [lists EXCEPT ![l] = StylesPush(@, style)]
        /\ res' = [op |-> "push"]
        /\ UNCHANGED <<mem, universe, foldVars, styleVars, rules>>

\* Styles::new for the next scope
LookupNewStyles ==
    /\ Borrowed(mem, Len(lists))
    /\ Len(lists) < MaxLinks
    /\ lists' = Append(lists, <<>>)
    /\ res' = [op |-> "styles"]
    /\ UNCHANGED <<mem, universe, foldVars, styleVars, rules>>

\* StyleChain::new(&root)
LookupNewChain ==
    /\ mem = <<>>
    /\ mem' = <<ChainNew(lists, 1)>>
    /\ res' = [op |-> "new"]
    /\ UNCHANGED <<lists, universe, foldVars, styleVars, rules>>

\* outer.chain(&local) for the innermost chain and the list under
\* construction, once the walk has pushed to it
LookupChain ==
    LET l == Len(lists)
    IN  /\ mem # <<>>
        /\ Len(mem) < MaxLinks
        /\ ~Borrowed(mem, l)
        /\ lists[l] # <<>>
        /\ mem' = Append(mem, ChainStyles(lists, mem, l, Len(mem)))
        /\ res' = [op |-> "chain"]
        /\ UNCHANGED <<lists, universe, foldVars, styleVars, rules>>

\* The fields a run reads.
QueryFields(u) ==
    IF u = "unfolded" THEN {FontField, LangField}
    ELSE IF u = "folded" THEN {DashField, FeatField}
    ELSE {}

\* chain.get_cloned(field) on the innermost chain
LookupGet(field) ==
    /\ mem # <<>>
    /\ res' = [op |-> "get", chain |-> Len(mem), field |-> field,
               out |-> GetCloned(lists, mem, mem[Len(mem)], field)]
    /\ UNCHANGED <<lists, mem, universe, foldVars, styleVars, rules>>

\* A consumer of entries() that tracks revocations while it iterates:
\* Revocation(k) suppresses the recipe k recipes further out than itself
\* (k = 0 the nearest one pushed before it); pending holds, for every
\* revocation met, how many recipes are still to pass before its target.
RECURSIVE ActiveFrom(_, _)
ActiveFrom(entries, pending) ==
    IF entries = <<>> THEN <<>>
    ELSE LET e == Head(entries)
         IN  IF e.kind = "Revocation"
             THEN ActiveFrom(Tail(entries), pending \cup {e.index})
             ELSE IF e.kind = "Recipe"
             THEN LET rest == ActiveFrom(Tail(entries), {k - 1 : k \in pending \ {0}})
                  IN  IF 0 \in pending THEN rest ELSE <<e>> \o rest
             ELSE ActiveFrom(Tail(entries), pending)

ActiveRecipes(ls, m, c) == ActiveFrom(Entries(ls, m, c), {})

\* chain.recipes() on the innermost chain, collected, and the recipes its
\* consumer finds active
LookupRecipes ==
    /\ mem # <<>>
    /\ universe = "recipes"
    /\ res' = [op |-> "recipes", chain |-> Len(mem),
               out |-> Recipes(lists, mem, mem[Len(mem)]),
               active |-> ActiveRecipes(lists, mem, mem[Len(mem)])]
    /\ UNCHANGED <<lists, mem, universe, foldVars, styleVars, rules>>

NextLookup ==
    \/ \E style \in Pushable(universe) : LookupPush(style)
    \/ LookupNewStyles
    \/ LookupNewChain
    \/ LookupChain
    \/ \E field \in QueryFields(universe) : LookupGet(field)
    \/ LookupRecipes

SpecLookup == InitLookup /\ [][NextLookup]_vars


(***************************************************************************)
(* Lookups                                                                 *)
(***************************************************************************)
\* The entries of a chain with the links walked nearest first and, inside
\* one link, the last pushed entry first.
RECURSIVE ConcatReversed(_, _)
ConcatReversed(ls, slices) ==
    IF slices = <<>> THEN <<>>
    ELSE Reverse(SliceEntries(ls, Head(slices))) \o ConcatReversed(ls, Tail(slices))

NearestFirst(ls, m, c) == ConcatReversed(ls, Links(m, c))

\* The positions of that order that hold a property of the field.
Hits(order, field) ==
    {i \in 1..Len(order) :
        /\ order[i].kind = "Property"
        /\ order[i].elem = field.elem
        /\ order[i].id = field.id}

FirstHit(order, field) == CHOOSE i \in Hits(order, field) : \A j \in Hits(order, field) : i <= j

\* The values at the positions from i on that hold a property of the field.
RECURSIVE HitValuesFrom(_, _, _)
HitValuesFrom(order, field, i) ==
    IF i > Len(order) THEN <<>>
    ELSE IF i \in Hits(order, field)
    THEN <<order[i].value.v>> \o HitValuesFrom(order, field, i + 1)
    ELSE HitValuesFrom(order, field, i + 1)

HitValues(order, field) == HitValuesFrom(order, field, 1)

ResOrder == NearestFirst(lists, mem, mem[res.chain])

\* C2: an unfolded lookup returns the value of the first property of the
\* field with the links walked nearest first and each link last pushed first,
\* and the default exactly when no link holds one; entries of other kinds and
\* of other fields do not count.
UnfoldedFirstMatch ==
    (res.op = "get" /\ ~res.field.fold) =>
        /\ ~res.out.panic
        /\ res.out.found <=> Hits(ResOrder, res.field) # {}
        /\ Hits(ResOrder, res.field) = {} => res.out.v = res.field.default
        /\ Hits(ResOrder, res.field) # {} =>
              res.out.v = ResOrder[FirstHit(ResOrder, res.field)].value.v
        /\ GetRef(lists, mem, mem[res.chain], res.field) = Ok(res.out.v)

\* C2 witness: the field was read from a chain of two links whose nearest
\* link holds two different values of it below an entry of another kind.
UnfoldedWitness ==
    /\ res.op = "get" /\ res.field = FontField
    /\ LinksCount(mem, mem[res.chain]) = 2
    /\ Cardinality(Hits(ResOrder, FontField)) >= 2
    /\ FirstHit(ResOrder, FontField) = 2
    /\ ResOrder[2].value.v # ResOrder[3].value.v
    /\ mem[res.chain].head.len = 3

\* fold(...fold(fold(v1, v2), v3)..., vn)
RECURSIVE LeftNested(_, _)
LeftNested(T, vals) ==
    IF Len(vals) = 1 THEN vals[1]
    ELSE Fold(T, LeftNested(T, Front(vals)), Last(vals))

\* C3: a folded lookup with matching values v1..vn, nearest first, returns
\* fold(fold(...fold(v1, v2)..., vn), default) after n calls of fold, and the
\* default itself, with no call of fold, when nothing matches.
FoldedLeftNested ==
    (res.op = "get" /\ res.field.fold) =>
        LET vals == HitValues(ResOrder, res.field)
        IN  /\ ~res.out.panic
            /\ vals = <<>> => res.out.v = res.field.default /\ res.out.folds = 0
            /\ vals # <<>> =>
                  /\ res.out.v = Fold(res.field.ty, LeftNested(res.field.ty, vals), res.field.default)
                  /\ res.out.folds = Len(vals)

\* C3 witness: three values, not all equal, in more than one link, read for a
\* field whose default is not empty.
FoldedWitness ==
    /\ res.op = "get" /\ res.field = FeatField
    /\ LinksCount(mem, mem[res.chain]) >= 2
    /\ Len(HitValues(ResOrder, FeatField)) = 3
    /\ HitValues(ResOrder, FeatField)[1] # HitValues(ResOrder, FeatField)[2]

\* The outer link sets the sequence field to [a], the inner one to [b], and
\* the field, whose default is empty, is read from the inner chain.
OuterAInnerB ==
    /\ res.op = "get" /\ res.field = DashField
    /\ LinksCount(mem, mem[res.chain]) = 2
    /\ SliceEntries(lists, Links(mem, mem[res.chain])[1]) = <<Set(DashField, <<"b">>)>>
    /\ SliceEntries(lists, Links(mem, mem[res.chain])[2]) = <<Set(DashField, <<"a">>)>>

\* C4 as claimed: the folded value lists the inner scope's elements first,
\* [b, a].
ConcatInnerBeforeOuter == OuterAInnerB => res.out.v = <<"b", "a">>

RECURSIVE Flatten(_)
Flatten(seqs) == IF seqs = <<>> THEN <<>> ELSE Head(seqs) \o Flatten(Tail(seqs))

\* C4 as amended: the folded value of a sequence field lists the outer
\* scope's elements before the inner scope's: [a, b] for outer [a] and inner
\* [b], and for any chain the default's elements, then every link's from the
\* outermost to the nearest.
ConcatOuterBeforeInner ==
    /\ OuterAInnerB => res.out.v = <<"a", "b">>
    /\ (res.op = "get" /\ res.field.fold /\ res.field.ty = <<"Vec">>) =>
          res.out.v = IF HitValues(ResOrder, res.field) = <<>> THEN res.field.default
                      ELSE res.field.default \o Flatten(Reverse(HitValues(ResOrder, res.field)))

\* C4 witness: that chain was read.
ConcatWitness == OuterAInnerB

\* Whether the recipe at position q of the order is revoked: a revocation
\* nearer than it names the number of recipes between the two.
Revoked(order, q) ==
    \E p \in 1..(q - 1) :
        /\ order[p].kind = "Revocation"
        /\ order[p].index = Cardinality({r \in (p + 1)..(q - 1) : order[r].kind = "Recipe"})

RECURSIVE RecipesFrom(_, _, _)
RecipesFrom(order, q, activeOnly) ==
    IF q > Len(order) THEN <<>>
    ELSE IF order[q].kind = "Recipe" /\ ~(activeOnly /\ Revoked(order, q))
    THEN <<order[q]>> \o RecipesFrom(order, q + 1, activeOnly)
    ELSE RecipesFrom(order, q + 1, activeOnly)

\* Two recipes were pushed to the one list of the chain and then a revocation
\* of the first pushed one.
TwoRecipesFirstRevoked ==
    /\ res.op = "recipes"
    /\ LinksCount(mem, mem[res.chain]) = 1
    /\ Len(lists[1]) = 3
    /\ lists[1][1].kind = "Recipe" /\ lists[1][2].kind = "Recipe"
    /\ lists[1][3] = Revocation(1)

ChainPopToDefault(m, c) == DefaultChain

\* StyleChain::pop: *self = self.tail.copied().unwrap_or_default()
ChainPop(m, c) == IF c.tail = None THEN DefaultChain ELSE m[Unwrap(c.tail)]

\* n times pop
RECURSIVE PopN(_, _, _)
PopN(m, c, n) == IF n = 0 THEN c ELSE PopN(m, ChainPop(m, c), n - 1)

\* A slip of eq: the parents are not compared.
ChainEqHeadOnly(a, b) == a.head = b.head

\* impl PartialEq for StyleChain: ptr::eq on the heads, and on the tails when
\* both have one
ChainEq(a, b) ==
    /\ a.head = b.head
    /\ IF IsSome(a.tail) /\ IsSome(b.tail) THEN Unwrap(a.tail) = Unwrap(b.tail)
       ELSE a.tail = None /\ b.tail = None

\* The while loop of trunk: pop both until they are equal or depth is 0
RECURSIVE TrunkLockstep(_, _, _, _)
TrunkLockstep(m, trunk, chain, depth) ==
    IF depth > 0 /\ ~ChainEq(chain, trunk)
    THEN TrunkLockstep(m, ChainPop(m, trunk), ChainPop(m, chain), depth - 1)
    ELSE [trunk |-> trunk, depth |-> depth]

\* A slip of trunk: a chain shorter than the trunk so far is compared with it
\* as it is.
TrunkStepNoShrink(m, st, chain) ==
    LET len == LinksCount(m, chain)
    IN  IF len > st.depth
        THEN TrunkLockstep(m, st.trunk, PopN(m, chain, len - st.depth), st.depth)
        ELSE TrunkLockstep(m, st.trunk, chain, st.depth)

\* The body of trunk's for loop, on st = [trunk, depth]
TrunkStep(m, st, chain) ==
    LET len == LinksCount(m, chain)
    IN  IF len < st.depth
        THEN TrunkLockstep(m, PopN(m, st.trunk, st.depth - len), chain, len)
        ELSE IF len > st.depth
        THEN TrunkLockstep(m, st.trunk, PopN(m, chain, len - st.depth), st.depth)
        ELSE TrunkLockstep(m, st.trunk, chain, st.depth)

RECURSIVE TrunkLoop(_, _, _)
TrunkLoop(m, st, chains) ==
    IF chains = <<>> THEN st
    ELSE TrunkLoop(m, TrunkStep(m, st, Head(chains)), Tail(chains))

\* StyleChain::trunk
Trunk(m, chains) ==
    IF chains = <<>> THEN None
    ELSE Some(TrunkLoop(m, [trunk |-> Head(chains), depth |-> LinksCount(m, Head(chains))],
                        Tail(chains)).trunk)

\* The for loop of suffix: styles.extend(link.iter().cloned().rev())
RECURSIVE SuffixExtend(_, _)
SuffixExtend(ls, links) ==
    IF links = <<>> THEN <<>>
    ELSE Reverse(SliceEntries(ls, Head(links))) \o SuffixExtend(ls, Tail(links))

\* usize::saturating_sub
SaturatingSub(a, b) == IF a > b THEN a - b ELSE 0

\* A slip of suffix: the nearest len links are skipped and the rest taken.
SuffixSkipNearest(ls, m, c, len) ==
    LET links == Links(m, c)
    IN  Reverse(SuffixExtend(ls, SubSeq(links, len + 1, Len(links))))

\* StyleChain::suffix: the first links().count() - len links of links()
Suffix(ls, m, c, len) ==
    LET take == SaturatingSub(LinksCount(m, c), len)
    IN  Reverse(SuffixExtend(ls, SubSeq(Links(m, c), 1, take)))

\* StyleChain::to_map
ToMap(ls, m, c) == Reverse(Entries(ls, m, c))

(***************************************************************************)
(* Spec: chains as values in memory.  The Styles objects exist beforehand; *)
(* chain values are created and dropped in stack order, as locals are.     *)
(***************************************************************************)
MaxChains == 4      \* chain values alive at once
MaxTrunk == 3       \* chains handed to trunk at once

\* The Styles objects: the root list, two local lists with equal contents, and
\* an empty one.
RootStyles == <<Set(FontField, <<"a">>), Set(DashField, <<"a">>)>>
LocalStyles == <<Set(FontField, <<"b">>)>>
StylesObjects == <<RootStyles, LocalStyles, LocalStyles, <<>>>>
RootIds == {1}
LocalIds == {2, 3, 4}

Init ==
    /\ lists = StylesObjects
    /\ mem = <<>>
    /\ res = [op |-> "init"]
    /\ universe = "none"
    /\ FoldIdle
    /\ StylesIdle
    /\ RulesIdle

\* res holds what the last call returned until the caller takes it; a call
\* is made when no result is pending.
QueryOps == {"get", "eq", "trunk", "suffix"}
NoPending == res.op \notin QueryOps

\* StyleChain::new(&lists[l]) into a new local
NewChain(l) ==
    /\ NoPending
    /\ Len(mem) < MaxChains
    /\ mem' = Append(mem, ChainNew(lists, l))
    /\ res' = [op |-> "new"]
    /\ UNCHANGED <<lists, universe, foldVars, styleVars, rules>>

\* A slip of chain: the local slice is also written over the receiver's head.
ChainInPlace(outer, l) ==
    /\ NoPending
    /\ Len(mem) < MaxChains
    /\ mem' = Append([mem EXCEPT ![outer].head = AsSlice(lists, l)],
                     ChainStyles(lists, mem, l, outer))
    /\ res' = [op |-> "chain", outer |-> outer, local |-> l]
    /\ UNCHANGED <<lists, universe, foldVars, styleVars, rules>>

\* mem[outer].chain(&lists[l]) into a new local, as layout_accent does with
\* styles.chain(&cramped)
Chain(outer, l) ==
    /\ NoPending
    /\ Len(mem) < MaxChains
    /\ mem' = Append(mem, ChainStyles(lists, mem, l, outer))
    /\ res' = [op |-> "chain", outer |-> outer, local |-> l]
    /\ UNCHANGED <<lists, universe, foldVars, styleVars, rules>>

\* mem[outer].chain(&lists[l][i]) for one entry of a list
ChainOne(outer, l, i) ==
    /\ NoPending
    /\ Len(mem) < MaxChains
    /\ mem' = Append(mem, ChainStyle(l, i, outer))
    /\ res' = [op |-> "chain", outer |-> outer, local |-> l]
    /\ UNCHANGED <<lists, universe, foldVars, styleVars, rules>>

\* The newest chain value goes out of scope.
DropChain ==
    /\ NoPending
    /\ mem # <<>>
    /\ mem' = Front(mem)
    /\ res' = [op |-> "drop", dropped |-> Last(mem), queried |-> res.op = "taken"]
    /\ UNCHANGED <<lists, universe, foldVars, styleVars, rules>>

\* get_cloned(field) on the newest chain value
Get(field) ==
    /\ NoPending
    /\ mem # <<>>
    /\ res' = [op |-> "get", chain |-> Len(mem), field |-> field,
               out |-> GetCloned(lists, mem, mem[Len(mem)], field)]
    /\ UNCHANGED <<lists, mem, universe, foldVars, styleVars, rules>>

\* mem[a] == mem[b]
Eq(a, b) ==
    /\ NoPending
    /\ res' = [op |-> "eq", a |-> a, b |-> b, out |-> ChainEq(mem[a], mem[b])]
    /\ UNCHANGED <<lists, mem, universe, foldVars, styleVars, rules>>

\* The sequences of distinct chain addresses, up to MaxTrunk long, that name
\* the newest chain value.
TrunkArgs ==
    {args \in SeqsUpTo(DOMAIN mem, MaxTrunk) :
        /\ \E i \in 1..Len(args) : args[i] = Len(mem)
        /\ \A i, j \in 1..Len(args) : i # j => args[i] # args[j]}

\* StyleChain::trunk over copies of the chains at some args
TrunkOf ==
    /\ NoPending
    /\ \E args \in TrunkArgs :
        res' = [op |-> "trunk", args |-> args,
                out |-> Trunk(mem, [i \in 1..Len(args) |-> mem[args[i]]])]
    /\ UNCHANGED <<lists, mem, universe, foldVars, styleVars, rules>>

\* suffix(len) on the newest chain value
SuffixOf(len) ==
    /\ NoPending
    /\ mem # <<>>
    /\ res' = [op |-> "suffix", chain |-> Len(mem), len |-> len,
               out |-> Suffix(lists, mem, mem[Len(mem)], len)]
    /\ UNCHANGED <<lists, mem, universe, foldVars, styleVars, rules>>

\* The caller takes the result.
Take ==
    /\ ~NoPending
    /\ res' = [op |-> "taken"]
    /\ UNCHANGED <<lists, mem, universe, foldVars, styleVars, rules>>

Next ==
    \/ \E l \in RootIds : NewChain(l)
    \/ \E outer \in DOMAIN mem : \E l \in LocalIds : Chain(outer, l)
    \/ \E outer \in DOMAIN mem : \E l \in LocalIds : \E i \in 1..Len(lists[l]) : ChainOne(outer, l, i)
    \/ DropChain
    \/ \E field \in {FontField, DashField} : Get(field)
    \/ \E a \in DOMAIN mem : Eq(a, Len(mem)) \/ Eq(Len(mem), a)
    \/ TrunkOf
    \/ \E len \in 0..MaxChains : SuffixOf(len)
    \/ Take

Spec == Init /\ [][Next]_vars

(***************************************************************************)
(* Properties of Spec                                                      *)
(***************************************************************************)
\* What a holder of the chain at address a can observe of it.
View(ls, m, a) ==
    [entries |-> Entries(ls, m, m[a]),
     links |-> LinksCount(m, m[a]),
     unfolded |-> GetCloned(ls, m, m[a], FontField),
     folded |-> GetCloned(ls, m, m[a], DashField)]

\* C5: building a chain on top of a chain c and discarding it are steps that
\* leave every style list as it was and leave c, and every other chain that
\* exists before and after the step, with the same entry sequence, link
\* count and folded and unfolded lookup results; a query step in between
\* changes no style list and no chain.
NestingNonDestructive ==
    [][/\ res'.op \in {"chain", "drop"} =>
            /\ lists' = lists
            /\ \A a \in DOMAIN mem \cap DOMAIN mem' :
                View(lists', mem', a) = View(lists, mem, a)
       /\ res'.op \in QueryOps => lists' = lists /\ mem' = mem]_vars

\* A chain nested on a chain that is still held was queried and then dropped.
NestingWitness ==
    /\ res.op = "drop" /\ res.queried
    /\ IsSome(res.dropped.tail)
    /\ Unwrap(res.dropped.tail) \in DOMAIN mem
    /\ res.dropped.head.list \in LocalIds

\* The addresses of the parents of c, nearest first.
RECURSIVE ParentPath(_, _)
ParentPath(m, c) ==
    IF c.tail = None THEN <<>> ELSE <<Unwrap(c.tail)>> \o ParentPath(m, m[Unwrap(c.tail)])

\* C6: two chains compare equal exactly when their heads are the same slice
\* and their parents are the same chain value (or both have none); equal
\* chains then have the same slices and the same parents at every level down
\* to the root, and chains whose heads lie in distinct lists are unequal
\* whatever the lists hold.
EqIsIdentity ==
    res.op = "eq" =>
        LET a == mem[res.a]
            b == mem[res.b]
        IN  /\ res.out <=> /\ a.head.list = b.head.list
                           /\ a.head.off = b.head.off
                           /\ a.head.len = b.head.len
                           /\ a.tail = b.tail
            /\ res.out => /\ Links(mem, a) = Links(mem, b)
                          /\ ParentPath(mem, a) = ParentPath(mem, b)
            /\ a.head.list # b.head.list => ~res.out

\* Two chains over distinct lists with equal contents, on one parent, were
\* compared and found unequal.
EqWitness ==
    /\ res.op = "eq" /\ ~res.out
    /\ mem[res.a].head.list # mem[res.b].head.list
    /\ mem[res.a].tail = mem[res.b].tail
    /\ Entries(lists, mem, mem[res.a]) = Entries(lists, mem, mem[res.b])

\* c and the chains that popping c reaches before it runs out of links.
AncestorsOrSelf(m, c) == {PopN(m, c, k) : k \in 0..(LinksCount(m, c) - 1)}

\* The root chain under c.
RootOf(m, c) == PopN(m, c, LinksCount(m, c) - 1)

\* C7: for a non-empty sequence of chains over one root, in any order and of
\* any depths, trunk returns a chain that is an ancestor-or-self of every
\* input and that no common ancestor-or-self is deeper than; for two chains
\* B1 and B2 nested on one chain A that is nested on the root, it returns A.
TrunkIsDeepestCommon ==
    res.op = "trunk" =>
        LET chains == [i \in 1..Len(res.args) |-> mem[res.args[i]]]
            common == {t \in AncestorsOrSelf(mem, chains[1]) :
                          \A i \in 1..Len(chains) : t \in AncestorsOrSelf(mem, chains[i])}
        IN  (\A i \in 1..Len(chains) : RootOf(mem, chains[i]) = RootOf(mem, chains[1])) =>
                /\ IsSome(res.out)
                /\ Unwrap(res.out) \in common
                /\ \A t \in common : LinksCount(mem, t) <= LinksCount(mem, Unwrap(res.out))
                /\ \A a \in DOMAIN mem :
                    (/\ Len(chains) = 2
                     /\ chains[1].tail = Some(a) /\ chains[2].tail = Some(a)
                     /\ chains[1].head # chains[2].head
                     /\ IsSome(mem[a].tail)) => Unwrap(res.out) = mem[a]

\* trunk was asked for B1 and B2, two different chains nested on one chain A
\* that is itself nested on a root.
TrunkWitness ==
    /\ res.op = "trunk" /\ Len(res.args) = 2
    /\ mem[res.args[1]].tail = mem[res.args[2]].tail
    /\ mem[res.args[1]].head # mem[res.args[2]].head
    /\ IsSome(mem[res.args[1]].tail)
    /\ IsSome(mem[Unwrap(mem[res.args[1]].tail)].tail)
    /\ res.out = Some(mem[Unwrap(mem[res.args[1]].tail)])

\* The entries, in push order, of the links that lie beyond the nearest len
\* links of c.
BeyondNearest(ls, m, c, len) ==
    IF len < LinksCount(m, c) THEN ToMap(ls, m, PopN(m, c, len)) ELSE <<>>

\* The entries, in push order, of the links of c other than its outermost
\* len links.
WithoutOutermost(ls, m, c, len) ==
    LET all == ToMap(ls, m, c)
        count == LinksCount(m, c)
    IN  IF len < count
        THEN SubSeq(all, Len(ToMap(ls, m, PopN(m, c, count - len))) + 1, Len(all))
        ELSE <<>>

\* C8 as stated: suffix(len) returns in push order the entries of the links
\* beyond the nearest len links, and nothing when the chain has at most len
\* links.
SuffixBeyondNearest ==
    res.op = "suffix" =>
        res.out = BeyondNearest(lists, mem, mem[res.chain], res.len)

\* C8: suffix(len) returns in push order the entries of the nearest
\* count - len links, that is of every link but the outermost len, and
\* nothing when the chain has at most len links.
SuffixWithoutOutermost ==
    res.op = "suffix" =>
        /\ res.out = WithoutOutermost(lists, mem, mem[res.chain], res.len)
        /\ LinksCount(mem, mem[res.chain]) <= res.len => res.out = <<>>

\* suffix(1) on a chain of three links returned the entries of the two
\* nearest links, which are not those of the two outermost.
SuffixWitness ==
    /\ res.op = "suffix" /\ res.len = 1
    /\ LinksCount(mem, mem[res.chain]) = 3
    /\ res.out = SliceEntries(lists, Links(mem, mem[res.chain])[2])
                   \o SliceEntries(lists, Links(mem, mem[res.chain])[1])
    /\ res.out # BeyondNearest(lists, mem, mem[res.chain], res.len)

(***************************************************************************)
(* SpecRules: the native show rule table under register, register_builtin, *)
(* get and NativeShowRule::apply.  A panic is caught by the caller, which  *)
(* goes on with the table as the panicking call left it.                   *)
(***************************************************************************)
Targets == {"Paged", "Html"}

\* The elements NativeRuleMap::new registers, in its order.
BuiltinElems ==
    <<"context", "counter-display", "counter-update", "state-update", "metadata", "prefix-info">>

\* The functions new registers for them.
BuiltinFns == <<"CONTEXT_RULE", "COUNTER_DISPLAY_RULE", "empty", "empty", "empty", "empty">>

\* The elements and functions callers of register bring: an element of their
\* own, and one that new has registered already.
UserElems == {"heading"}
UserFns == {"f", "g"}
Elems == {BuiltinElems[i] : i \in DOMAIN BuiltinElems} \cup UserElems
Registrable == UserElems \cup {BuiltinElems[1]}

\* Content of some element; func() and elem() both give its element.
Contents == [elem : Elems]
ContentFunc(content) == content.elem
ContentElem(content) == content.elem

\* FxHashMap::insert: the old value under the key, if any, is replaced and
\* returned
HashMapInsert(map, key, v) ==
    [map |-> {e \in map : e.key # key} \cup {[key |-> key, v |-> v]},
     old |-> IF \E e \in map : e.key = key
             THEN Some((CHOOSE e \in map : e.key = key).v) ELSE None]

\* FxHashMap::get(..).copied()
HashMapGet(map, key) ==
    IF \E e \in map : e.key = key THEN Some((CHOOSE e \in map : e.key = key).v) ELSE None

\* NativeShowRule::new::<T>(f)
NativeShowRuleNew(T, f) == [elem |-> T, f |-> f]

\* A slip of register: the result of insert is not looked at.
RegisterSilently(st, T, target, f) ==
    IF st.panic THEN st
    ELSE [rules |-> HashMapInsert(st.rules, <<T, target>>, NativeShowRuleNew(T, f)).map,
          panic |-> FALSE]

\* NativeRuleMap::register::<T>(target, f) on st = [rules, panic]; nothing
\* runs once a panic unwinds
Register(st, T, target, f) ==
    IF st.panic THEN st
    ELSE LET res_ == HashMapInsert(st.rules, <<T, target>>, NativeShowRuleNew(T, f))
         IN  [rules |-> res_.map, panic |-> IsSome(res_.old)]

\* NativeRuleMap::register_builtin::<T>(f)
RegisterBuiltin(st, T, f) == Register(Register(st, T, "Paged", f), T, "Html", f)

\* NativeRuleMap::register_empty::<T>()
RegisterEmpty(st, T) == RegisterBuiltin(st, T, "empty")

RECURSIVE RegisterBuiltinsFrom(_, _)
RegisterBuiltinsFrom(st, i) ==
    IF i > Len(BuiltinElems) THEN st
    ELSE RegisterBuiltinsFrom(
             IF BuiltinFns[i] = "empty" THEN RegisterEmpty(st, BuiltinElems[i])
             ELSE RegisterBuiltin(st, BuiltinElems[i], BuiltinFns[i]), i + 1)

\* NativeRuleMap::new
NativeRuleMapNew == RegisterBuiltinsFrom([rules |-> {}, panic |-> FALSE], 1)

\* A slip of get: the target is not part of the key.
NativeRuleMapGetAnyTarget(map, target, content) ==
    IF \E e \in map : e.key[1] = ContentFunc(content)
    THEN Some((CHOOSE e \in map : e.key[1] = ContentFunc(content)).v) ELSE None

\* NativeRuleMap::get
NativeRuleMapGet(map, target, content) == HashMapGet(map, <<ContentFunc(content), target>>)

\* NativeShowRule::apply: assert_eq!(content.elem(), self.elem), then the call
NativeShowRuleApply(rule, content) ==
    IF ContentElem(content) # rule.elem
    THEN [panic |-> TRUE, invoked |-> FALSE]
    ELSE [panic |-> FALSE, invoked |-> TRUE, f |-> rule.f, on |-> ContentElem(content)]

InitRules ==
    /\ rules = NativeRuleMapNew.rules
    /\ res = [op |-> "new", panic |-> NativeRuleMapNew.panic]
    /\ lists = <<>> /\ mem = <<>> /\ universe = "none"
    /\ FoldIdle
    /\ StylesIdle

RulesRegister(T, target, f) ==
    LET st == Register([rules |-> rules, panic |-> FALSE], T, target, f)
    IN  /\ rules' = st.rules
        /\ res' = [op |-> "register", elem |-> T, target |-> target, f |-> f,
                   before |-> rules, panic |-> st.panic]
        /\ UNCHANGED <<lists, mem, universe, foldVars, styleVars>>

RulesRegisterBuiltin(T, f) ==
    LET st == RegisterBuiltin([rules |-> rules, panic |-> FALSE], T, f)
    IN  /\ rules' = st.rules
        /\ res' = [op |-> "register_builtin", elem |-> T, f |-> f,
                   before |-> rules, panic |-> st.panic]
        /\ UNCHANGED <<lists, mem, universe, foldVars, styleVars>>

RulesGet(target, content) ==
    /\ res' = [op |-> "get", target |-> target, content |-> content,
               out |-> NativeRuleMapGet(rules, target, content)]
    /\ UNCHANGED <<rules, lists, mem, universe, foldVars, styleVars>>

\* apply of a rule of the table to some content
RulesApply(rule, content) ==
    /\ res' = [op |-> "apply", rule |-> rule, content |-> content,
               out |-> NativeShowRuleApply(rule, content)]
    /\ UNCHANGED <<rules, lists, mem, universe, foldVars, styleVars>>

NextRules ==
    \/ \E T \in Registrable, target \in Targets, f \in UserFns : RulesRegister(T, target, f)
    \/ \E T \in Registrable, f \in UserFns : RulesRegisterBuiltin(T, f)
    \/ \E target \in Targets, content \in Contents : RulesGet(target, content)
    \/ \E e \in rules, content \in Contents : RulesApply(e.v, content)

SpecRules == InitRules /\ [][NextRules]_vars

HasRule(map, T, target) == \E e \in map : e.key = <<T, target>>

\* C11: a register call panics exactly when its (element, target) key has a
\* rule already, and otherwise adds its rule and nothing else; the table
\* never holds two rules for one key; register_builtin on an element with no
\* rule yet registers it for Paged and for Html without a panic, as new does
\* for every built-in element.
RegisterRejectsDuplicates ==
    /\ \A e1, e2 \in rules : e1.key = e2.key => e1 = e2
    /\ res.op = "new" =>
        /\ ~res.panic
        /\ \A i \in DOMAIN BuiltinElems : \A target \in Targets :
            HasRule(rules, BuiltinElems[i], target)
    /\ res.op = "register" =>
        /\ res.panic <=> HasRule(res.before, res.elem, res.target)
        /\ ~res.panic =>
            rules = res.before \cup {[key |-> <<res.elem, res.target>>,
                                      v |-> NativeShowRuleNew(res.elem, res.f)]}
    /\ res.op = "register_builtin" =>
        /\ res.panic <=> \E target \in Targets : HasRule(res.before, res.elem, target)
        /\ ~res.panic => \A target \in Targets : HasRule(rules, res.elem, target)

\* An element registered for one target was registered for that target again,
\* after it had been registered for the other target too.
RegisterWitness ==
    /\ res.op = "register" /\ res.panic
    /\ res.elem \in UserElems
    /\ \A target \in Targets : HasRule(res.before, res.elem, target)

\* C12: get returns the rule held under (the content's element, the target),
\* or nothing when there is none; a returned rule declares the content's
\* element, so applying it to that content passes the assertion; apply on
\* content of another element panics without calling the function; a rule
\* just registered is what get returns for its key.
GetReturnsRegistered ==
    /\ res.op = "get" =>
        /\ IsSome(res.out) <=> HasRule(rules, res.content.elem, res.target)
        /\ IsSome(res.out) =>
            /\ [key |-> <<res.content.elem, res.target>>, v |-> Unwrap(res.out)] \in rules
            /\ Unwrap(res.out).elem = res.content.elem
            /\ ~NativeShowRuleApply(Unwrap(res.out), res.content).panic
            /\ NativeShowRuleApply(Unwrap(res.out), res.content).invoked
    /\ res.op = "apply" =>
        /\ res.out.panic <=> res.rule.elem # res.content.elem
        /\ res.out.panic => ~res.out.invoked
    /\ res.op = "register" /\ ~res.panic =>
        NativeRuleMapGet(rules, res.target, [elem |-> res.elem])
            = Some(NativeShowRuleNew(res.elem, res.f))

\* get found nothing for an element on one target while the element has a
\* rule on the other target.
GetWitness ==
    /\ res.op = "get" /\ res.out = None
    /\ \E target \in Targets : HasRule(rules, res.content.elem, target)

(***************************************************************************)
(* SpecRecipe: Recipe::apply on some recipe and content, with either       *)
(* outcome of the call of the recipe's function.                           *)
(***************************************************************************)
\* Result::trace: every error of a failed result gets the tracepoint and the
\* span as a new trace entry; a good result stays as it is.
Trace(result, point, span) ==
    IF result.ok THEN result
    ELSE [ok |-> FALSE,
          errors |-> [i \in DOMAIN result.errors |->
                        [result.errors[i] EXCEPT
                            !.trace = Append(@, [point |-> point, span |-> span])]]]

\* Content::spanned under the is_detached test of apply
SpannedIfDetached(content, span) ==
    IF content.span = Detached THEN [content EXCEPT !.span = span] ELSE content

\* A slip of apply: the result of the call is never traced.
RecipeApplyUntraced(recipe, content, call) ==
    IF recipe.transform.kind = "Content"
    THEN [ok |-> TRUE, v |-> SpannedIfDetached(recipe.transform.content, recipe.span)]
    ELSE IF recipe.transform.kind = "Func"
    THEN IF call.ok THEN [ok |-> TRUE, v |-> SpannedIfDetached(call.v, recipe.span)]
         ELSE call
    ELSE [ok |-> TRUE,
          v |-> SpannedIfDetached([elem |-> "styled", span |-> Detached], recipe.span)]

\* Recipe::apply, where call is what func.call(engine, context, [content])
\* returns
RecipeApply(recipe, content, call) ==
    IF recipe.transform.kind = "Content"
    THEN [ok |-> TRUE, v |-> SpannedIfDetached(recipe.transform.content, recipe.span)]
    ELSE IF recipe.transform.kind = "Func"
    THEN LET result == IF IsSome(recipe.selector)
                       THEN Trace(call, [kind |-> "Show", name |-> content.elem],
                                  content.span)
                       ELSE call
         IN  IF result.ok THEN [ok |-> TRUE, v |-> SpannedIfDetached(result.v, recipe.span)]
             ELSE result
    ELSE [ok |-> TRUE,
          v |-> SpannedIfDetached([elem |-> "styled", span |-> Detached], recipe.span)]

\* The recipes, matched contents and call outcomes of SpecRecipe.
RecipeSamples ==
    {Recipe(selector, transform, span) :
        selector \in {None, Some("heading")},
        transform \in {[kind |-> "Content", content |-> [elem |-> "text", span |-> Detached]],
                       [kind |-> "Func", func |-> "f"],
                       [kind |-> "Style", styles |-> <<>>]},
        span \in {1, 2}}
ContentSamples == [elem : {"heading", "strong"}, span : {Detached, 3}]
CallSamples ==
    {[ok |-> TRUE, v |-> [elem |-> "text", span |-> Detached]],
     [ok |-> TRUE, v |-> [elem |-> "text", span |-> 4]],
     [ok |-> FALSE, errors |-> <<[span |-> 5, trace |-> <<>>]>>],
     [ok |-> FALSE, errors |-> <<[span |-> 5, trace |-> <<>>],
                                [span |-> 6, trace |-> <<[point |-> [kind |-> "Call"], span |-> 6]>>]>>]}

InitRecipe ==
    /\ res = [op |-> "init"]
    /\ lists = <<>> /\ mem = <<>> /\ universe = "none"
    /\ RulesIdle
    /\ FoldIdle
    /\ StylesIdle

ApplyRecipe(recipe, content, call) ==
    /\ res' = [op |-> "apply", recipe |-> recipe, content |-> content, call |-> call,
               out |-> RecipeApply(recipe, content, call)]
    /\ UNCHANGED <<lists, mem, universe, foldVars, styleVars, rules>>

NextRecipe ==
    \E recipe \in RecipeSamples, content \in ContentSamples, call \in CallSamples :
        ApplyRecipe(recipe, content, call)

SpecRecipe == InitRecipe /\ [][NextRecipe]_vars

\* The function of a recipe with a function transformation failed.
CallFailed == res.op = "apply" /\ res.recipe.transform.kind = "Func" /\ ~res.call.ok

\* error has a trace entry for a show rule on content of the kind of
\* content, at span.
HasShowTrace(error, content, span) ==
    \E i \in DOMAIN error.trace :
        error.trace[i] = [point |-> [kind |-> "Show", name |-> content.elem], span |-> span]

MaxCells == 2       \* entries in one list

\* impl Clone for Block: dyn_clone boxes a clone of the stored value
BlockClone(block) == Block(block.ty, block.v)

\* Styles::clone, entry by entry
StylesClone(list) ==
    [i \in DOMAIN list |-> [list[i] EXCEPT !.value = BlockClone(list[i].value)]]

\* The types a cell of the field is written and read with.
CellTypes == {<<"FontList">>, <<"Vec">>}

\* get_ref of FontField's property, read as a T, on a chain over list l
ReadAs(ls, l, T) == GetRef(ls, <<>>, ChainNew(ls, l), [FontField EXCEPT !.ty = T])

InitBlock ==
    /\ lists = <<<<>>, <<>>>>
    /\ res = [op |-> "init"]
    /\ mem = <<>> /\ universe = "none"
    /\ RulesIdle
    /\ FoldIdle
    /\ StylesIdle

\* Styles::set with a value of type T
BlockWrite(l, T, v) ==
    /\ Len(lists[l]) < MaxCells
    /\ lists' = [lists EXCEPT ![l] = StylesPush(@, Property(FontField.elem, FontField.id, T, v))]
    /\ res' = [op |-> "write", list |-> l, ty |-> T, v |-> v]
    /\ UNCHANGED <<mem, universe, foldVars, styleVars, rules>>

\* lists[dst] = lists[src].clone()
BlockCloneTo(src, dst) ==
    /\ src # dst
    /\ lists' = [lists EXCEPT ![dst] = StylesClone(lists[src])]
    /\ res' = [op |-> "clone", src |-> src, dst |-> dst]
    /\ UNCHANGED <<mem, universe, foldVars, styleVars, rules>>

\* Styles::unset on one of the lists
BlockUnset(l) ==
    /\ lists' = [lists EXCEPT ![l] = StylesUnset(@)]
    /\ res' = [op |-> "unset", list |-> l]
    /\ UNCHANGED <<mem, universe, foldVars, styleVars, rules>>

BlockRead(l, T) ==
    /\ res' = [op |-> "read", list |-> l, ty |-> T, out |-> ReadAs(lists, l, T)]
    /\ UNCHANGED <<lists, mem, universe, foldVars, styleVars, rules>>

NextBlock ==
    \/ \E l \in DOMAIN lists, T \in CellTypes, v \in {<<"a">>, <<"b">>} : BlockWrite(l, T, v)
    \/ \E src \in DOMAIN lists, dst \in DOMAIN lists : BlockCloneTo(src, dst)
    \/ \E l \in DOMAIN lists : BlockUnset(l)
    \/ \E l \in DOMAIN lists, T \in CellTypes : BlockRead(l, T)

SpecBlock == InitBlock /\ [][NextBlock]_vars

\* A read of the newest cell of a list gives its value when the type is the
\* one it was written with, panics when it is not, and gives the default
\* only when the list has no cell; a cell just written reads back as
\* written; a clone reads as its original does.
CellReads ==
    /\ res.op = "read" =>
        LET list == lists[res.list]
        IN  IF list = <<>> THEN res.out = Ok(FontField.default)
            ELSE IF Last(list).value.ty = res.ty THEN res.out = Ok(Last(list).value.v)
            ELSE res.out.panic /\ "v" \notin DOMAIN res.out
    /\ res.op = "write" => ReadAs(lists, res.list, res.ty) = Ok(res.v)
    /\ res.op = "clone" =>
        /\ lists[res.dst] = lists[res.src]
        /\ \A T \in CellTypes : ReadAs(lists, res.dst, T) = ReadAs(lists, res.src, T)

\* A write, an unset or a clone changes the one list it is made on.
CellsIndependent ==
    \A l \in DOMAIN lists :
        lists'[l] # lists[l] =>
            /\ res'.op \in {"write", "unset", "clone"}
            /\ res'.op = "clone" => l = res'.dst
            /\ res'.op \in {"write", "unset"} => l = res'.list

\* C14: a cell read with the type it was written with gives the value
\* written, in the list it was written to and in every clone of that list,
\* however often cloned; a change of the original or of the clone leaves the
\* other as it was; a read with another type panics, returning neither an
\* older cell's value nor the default.
CellRoundTrip == []CellReads /\ [][CellsIndependent]_vars

\* A list whose newest cell differs from its older one in type and value was
\* cloned, the original lost that cell, and the clone, read with the type of
\* the older cell, panicked.
CellWitness ==
    /\ res.op = "read" /\ res.list = 2 /\ res.out = Panic
    /\ Len(lists[2]) = 2 /\ Len(lists[1]) = 1
    /\ lists[2][1] = lists[1][1]
    /\ lists[2][1].value.ty = res.ty
    /\ lists[2][2].value.ty # res.ty

(***************************************************************************)
(* SpecBranches: two branches that share one parent chain.  Each holds its *)
(* own copy of the parent, nests its own list on the parent, and runs      *)
(* lookups, trunk and pop on its copy; their steps interleave freely.      *)
(***************************************************************************)
MaxOps == 3         \* steps of one branch

Branches == {1, 2}
BranchOps == {"chain", "get", "trunk", "pop"}

\* The parent chain is at address 1, the chain value of branch b at 1 + b;
\* branch b nests the list at 1 + b.
ParentMem == <<ChainNew(StylesObjects, 1), ChainNew(StylesObjects, 1), ChainNew(StylesObjects, 1)>>

\* A slip of pop in a branch: the shared parent is popped, not the copy.
BranchOpOnParent(b, m, op) ==
    IF op = "chain" THEN [mem |-> [m EXCEPT ![1 + b] = ChainStyles(StylesObjects, m, 1 + b, 1)],
                          out |-> <<>>]
    ELSE IF op = "get" THEN [mem |-> m,
                             out |-> <<GetCloned(StylesObjects, m, m[1 + b], FontField),
                                       GetCloned(StylesObjects, m, m[1 + b], DashField)>>]
    ELSE IF op = "trunk" THEN [mem |-> m, out |-> Trunk(m, <<m[1 + b], m[1]>>)]
    ELSE [mem |-> [m EXCEPT ![1] = ChainPop(m, m[1])], out |-> <<>>]

\* One step of branch b on the memory m: the memory after it and what the
\* branch got back.
BranchOp(b, m, op) ==
    IF op = "chain" THEN [mem |-> [m EXCEPT ![1 + b] = ChainStyles(StylesObjects, m, 1 + b, 1)],
                          out |-> <<>>]
    ELSE IF op = "get" THEN [mem |-> m,
                             out |-> <<GetCloned(StylesObjects, m, m[1 + b], FontField),
                                       GetCloned(StylesObjects, m, m[1 + b], DashField)>>]
    ELSE IF op = "trunk" THEN [mem |-> m, out |-> Trunk(m, <<m[1 + b], m[1]>>)]
    ELSE [mem |-> [m EXCEPT ![1 + b] = ChainPop(m, m[1 + b])], out |-> <<>>]

InitBranches ==
    /\ lists = StylesObjects
    /\ mem = ParentMem
    /\ res = [b \in Branches |-> <<>>]
    /\ universe = "none"
    /\ RulesIdle
    /\ FoldIdle
    /\ StylesIdle

BranchStep(b, op) ==
    LET r == BranchOp(b, mem, op)
    IN  /\ Len(res[b]) < MaxOps
        /\ mem' = r.mem
        /\ res' = [res EXCEPT ![b] = Append(@, [op |-> op, out |-> r.out, chain |-> r.mem[1 + b]])]
        /\ UNCHANGED <<lists, universe, foldVars, styleVars, rules>>

NextBranches == \E b \in Branches, op \in BranchOps : BranchStep(b, op)

SpecBranches == InitBranches /\ [][NextBranches]_vars

\* What branch b logs when it makes the steps of log alone, from the start.
RECURSIVE AloneFrom(_, _, _)
AloneFrom(b, m, log) ==
    IF log = <<>> THEN <<>>
    ELSE LET r == BranchOp(b, m, Head(log).op)
         IN  <<[op |-> Head(log).op, out |-> r.out, chain |-> r.mem[1 + b]]>>
             \o AloneFrom(b, r.mem, Tail(log))

\* C15: however the steps of the two branches interleave, each branch has
\* got from its lookups, trunks and pops what it gets when it makes the same
\* steps alone, and the parent chain has the entries, link count and lookup
\* results it started with.
BranchesIsolated ==
    /\ \A b \in Branches : res[b] = AloneFrom(b, ParentMem, res[b])
    /\ lists = StylesObjects
    /\ mem[1] = ParentMem[1]
    /\ View(lists, mem, 1) = View(StylesObjects, ParentMem, 1)

\* Both branches have nested their list on the parent; one has looked up and
\* popped since, the other has asked for the trunk with the parent.
BranchesWitness ==
    /\ Len(res[1]) = 3 /\ Len(res[2]) = 2
    /\ res[1][1].op = "chain" /\ res[1][2].op = "get" /\ res[1][3].op = "pop"
    /\ res[2][1].op = "chain" /\ res[2][2].op = "trunk"
    /\ mem[3].tail = Some(1) /\ mem[2] = mem[1]

(***************************************************************************)
(* SpecApply: Styles::apply on two lists, beside the chain that nests the  *)
(* one on the other.                                                       *)
(***************************************************************************)
MaxApply == 2       \* entries in each of the two lists

\* A slip of apply: the entries of self come first.
StylesApplySelfFirst(self, outer) == self \o outer

\* Styles::apply: outer.0.extend(mem::take(self).0); *self = outer
StylesApply(self, outer) == outer \o self

ApplySamples ==
    {Set(FontField, <<"a">>), Set(FontField, <<"b">>), Set(DashField, <<"a">>),
     Set(DashField, <<"b">>), ShowA}

\* lists[1] is self and lists[2] is outer, which apply takes over.
InitApply ==
    /\ lists \in {<<self, outer>> : self \in SeqsUpTo(ApplySamples, MaxApply),
                                    outer \in SeqsUpTo(ApplySamples, MaxApply)}
    /\ res = [op |-> "init"]
    /\ mem = <<>> /\ universe = "none"
    /\ RulesIdle
    /\ FoldIdle
    /\ StylesIdle

Apply ==
    /\ Len(lists) = 2
    /\ lists' = <<StylesApply(lists[1], lists[2])>>
    /\ res' = [op |-> "apply", self |-> lists[1], outer |-> lists[2]]
    /\ UNCHANGED <<mem, universe, foldVars, styleVars, rules>>

NextApply == Apply

SpecApply == InitApply /\ [][NextApply]_vars

\* The chain that nests the list self on a root chain over the list outer,
\* as [ls, m, c].
NestedOn(self, outer) ==
    [ls |-> <<outer, self>>,
     m |-> <<ChainNew(<<outer, self>>, 1)>>,
     c |-> ChainStyles(<<outer, self>>, <<ChainNew(<<outer, self>>, 1)>>, 2, 1)]

\* C16: after self.apply(outer) the list holds the entries of outer and then
\* those of self, each in their order, and a chain over it has, innermost
\* first, the entries of the chain that nests self on a root chain over
\* outer, and the same folded and unfolded lookup results.
ApplyIsChainInPlace ==
    res.op = "apply" =>
        LET n == NestedOn(res.self, res.outer)
            c == ChainNew(lists, 1)
        IN  /\ lists[1] = res.outer \o res.self
            /\ Entries(lists, <<>>, c) = Entries(n.ls, n.m, n.c)
            /\ \A field \in {FontField, DashField, FeatField, LangField} :
                GetCloned(lists, <<>>, c, field) = GetCloned(n.ls, n.m, n.c, field)

\* apply joined two lists that both set the folded and the unfolded field,
\* to different values.
ApplyWitness ==
    /\ res.op = "apply"
    /\ Len(res.self) = 2 /\ Len(res.outer) = 2
    /\ res.self # res.outer
    /\ \A list \in {res.self, res.outer} :
        /\ \A i \in 1..2 : list[i].kind = "Property"
        /\ \E i \in 1..2 : PropertyIs(list[i], FontField.elem, FontField.id)
        /\ \E i \in 1..2 : PropertyIs(list[i], DashField.elem, DashField.id)
    /\ GetCloned(lists, <<>>, ChainNew(lists, 1), DashField).folds = 2

(***************************************************************************)
(* SpecSpanned: a style list under push and spanned.                       *)
(***************************************************************************)
\* A slip of spanned: a property that has a span keeps it.
StylesSpannedIfDetached(list, span) ==
    [i \in DOMAIN list |->
        IF list[i].kind = "Property" /\ list[i].span = Detached
        THEN [list[i] EXCEPT !.span = span] ELSE list[i]]

\* Styles::spanned: property.span = span for every Style::Property
StylesSpanned(list, span) ==
    [i \in DOMAIN list |->
        IF list[i].kind = "Property" THEN [list[i] EXCEPT !.span = span] ELSE list[i]]

InitSpanned ==
    /\ sty = <<>>
    /\ undo = <<>>
    /\ sop = [op |-> "init"]
    /\ FoldIdle
    /\ HeapIdle
    /\ RulesIdle

SpannedPush(style) ==
    /\ Len(sty) < MaxStyles
    /\ sty' = StylesPush(sty, style)
    /\ sop' = [op |-> "push"]
    /\ UNCHANGED <<undo, foldVars, heapVars, rules>>

Spanned(span) ==
    /\ sty' = StylesSpanned(sty, span)
    /\ sop' = [op |-> "spanned", span |-> span, was |-> sty]
    /\ UNCHANGED <<undo, foldVars, heapVars, rules>>

NextSpanned ==
    \/ \E style \in StyleSamples : SpannedPush(style)
    \/ \E span \in {1, 2} : Spanned(span)

SpecSpanned == InitSpanned /\ [][NextSpanned]_vars

\* C17 as stated: spanned stamps the span onto every property without one;
\* a property that has a span, a recipe and a revocation stay as they are,
\* and so do the number and order of the entries.
SpannedStampsDetached ==
    sop.op = "spanned" =>
        /\ Len(sty) = Len(sop.was)
        /\ \A i \in DOMAIN sty :
            IF sop.was[i].kind = "Property" /\ sop.was[i].span = Detached
            THEN sty[i] = [sop.was[i] EXCEPT !.span = sop.span]
            ELSE sty[i] = sop.was[i]

\* C17: spanned stamps the span onto every property, over the span it may
\* have had, and changes nothing else of it; a recipe keeps its span, a
\* revocation stays as it is, and so do the number and order of the entries.
SpannedStampsAll ==
    sop.op = "spanned" =>
        /\ Len(sty) = Len(sop.was)
        /\ \A i \in DOMAIN sty :
            IF sop.was[i].kind = "Property"
            THEN /\ sty[i].span = sop.span
                 /\ [sty[i] EXCEPT !.span = Detached] = [sop.was[i] EXCEPT !.span = Detached]
            ELSE sty[i] = sop.was[i]

\* spanned ran on a list with a property stamped by an earlier spanned, a
\* property pushed since, and a recipe of another span.
SpannedWitness ==
    /\ sop.op = "spanned"
    /\ \E i \in DOMAIN sty :
        /\ sop.was[i].kind = "Property"
        /\ sop.was[i].span \notin {Detached, sop.span}
        /\ sty[i].span = sop.span
    /\ \E i \in DOMAIN sty : sop.was[i].kind = "Property" /\ sop.was[i].span = Detached
    /\ \E i \in DOMAIN sty : sty[i].kind = "Recipe" /\ sty[i].span # sop.span

\* C18: chain with an empty local list gives a chain with the head, the
\* parent and the link count of outer, equal to it; with a local list that
\* has entries it gives a chain of one more link, whose head is the entries
\* of that list and whose parent is outer.
ChainAddsLinkUnlessEmpty ==
    res.op = "chain" =>
        LET new == Last(mem)
            outer == mem[res.outer]
        IN  IF lists[res.local] = <<>>
            THEN /\ new.head = outer.head /\ new.tail = outer.tail
                 /\ ChainEq(new, outer)
                 /\ LinksCount(mem, new) = LinksCount(mem, outer)
            ELSE /\ LinksCount(mem, new) = LinksCount(mem, outer) + 1
                 /\ new.head.list = res.local
                 /\ SliceEntries(lists, new.head) = lists[res.local]
                 /\ new.tail = Some(res.outer)
                 /\ Tail(Links(mem, new)) = Links(mem, outer)

\* The empty list was chained on a chain of two links.
ChainEmptyWitness ==
    /\ res.op = "chain"
    /\ lists[res.local] = <<>>
    /\ LinksCount(mem, mem[res.outer]) = 2
    /\ Last(mem) = mem[res.outer]

(***************************************************************************)
(* SpecWalk: a tree walk that nests a list on its current chain when it    *)
(* enters a scope and pops its current chain when it leaves the scope.     *)
(* mem holds the chain of every open scope; res.cur is the current chain,  *)
(* res.held the chains held before each entry not yet left, and res.clean  *)
(* tells that no empty list has been nested so far.                        *)
(***************************************************************************)
InitWalk ==
    /\ lists = StylesObjects
    /\ mem = <<ChainNew(StylesObjects, 1)>>
    /\ res = [op |-> "init", cur |-> ChainNew(StylesObjects, 1), held |-> <<>>, clean |-> TRUE]
    /\ universe = "none"
    /\ RulesIdle
    /\ FoldIdle
    /\ StylesIdle

\* cur = cur.chain(&lists[l]), with the chain held so far staying where it is
WalkEnter(l) ==
    /\ Len(res.held) < MaxChains
    /\ res.cur = Last(mem)
    /\ mem' = Append(mem, ChainStyles(lists, mem, l, Len(mem)))
    /\ res' = [op |-> "enter", cur |-> ChainStyles(lists, mem, l, Len(mem)),
               held |-> Append(res.held, [chain |-> res.cur, local |-> l]),
               clean |-> res.clean /\ lists[l] # <<>>]
    /\ UNCHANGED <<lists, universe, foldVars, styleVars, rules>>

\* cur.pop() at the end of the innermost open scope; direct tells that cur
\* was the chain built at the entry of that scope
WalkExit ==
    /\ res.held # <<>>
    /\ mem' = Front(mem)
    /\ res' = [op |-> "exit", cur |-> ChainPop(mem, res.cur), held |-> Front(res.held),
               left |-> Last(res.held), direct |-> res.cur = Last(mem), clean |-> res.clean]
    /\ UNCHANGED <<lists, universe, foldVars, styleVars, rules>>

NextWalk == (\E l \in LocalIds : WalkEnter(l)) \/ WalkExit

SpecWalk == InitWalk /\ [][NextWalk]_vars

\* C19 as stated: whatever list was nested, empty or not, the pop at the end
\* of a scope gives a chain equal to the one held before the scope was
\* entered, and with all scopes left the current chain equals the first.
PopUndoesChain ==
    res.op = "exit" =>
        /\ ChainEq(res.cur, res.left.chain)
        /\ res.held = <<>> => ChainEq(res.cur, ChainNew(StylesObjects, 1))

\* C19: as long as every nested list had entries, the pop at the end of a
\* scope gives a chain equal to the one held before the scope was entered,
\* and with all scopes left the current chain equals the first; after an
\* empty list was nested on a chain, the pop gives the parent of that chain,
\* or the default chain when it has none.
PopUndoesChainOfEntries ==
    res.op = "exit" =>
        /\ res.clean =>
            /\ ChainEq(res.cur, res.left.chain)
            /\ res.held = <<>> => ChainEq(res.cur, ChainNew(StylesObjects, 1))
        /\ res.direct /\ lists[res.left.local] = <<>> =>
            res.cur = IF res.left.chain.tail = None THEN DefaultChain
                      ELSE mem[Unwrap(res.left.chain.tail)]

\* Only lists with entries were nested, the last scope was left, and the
\* current chain is the first chain again.
WalkWitness ==
    /\ res.op = "exit" /\ res.clean
    /\ res.held = <<>>
    /\ mem = <<ChainNew(StylesObjects, 1)>>
    /\ res.cur = mem[1]
    /\ res.left.local \in {2, 3}

====
